---- MODULE Spec2Model ----
(***************************************************************************)
(* doughdetective: reconciliation of a card statement (CSV) against the    *)
(* transactions of a Firefly III ledger (src/doughdetective/main.py).      *)
(*                                                                         *)
(* Text is modelled as a sequence of one-token strings, so that Python's   *)
(* substring test, str.split('.') and strptime/strftime are computed and   *)
(* not assumed.  Amounts are sequences of characters ("1", ".", "5").      *)
(***************************************************************************)
EXTENDS Integers, Sequences, FiniteSets, TLC

VARIABLES
    pc,                    \* position of main()
    format_config,         \* config['formats'][account_name]
    csv_file,              \* rows of the statement file, once read_csv opened it
    endpoint,              \* make_api_call: endpoint of the running call
    page,                  \* make_api_call: local page counter
    all_data,              \* make_api_call: local all_data
    requests,              \* history: pages requested by the running call
    responses,             \* history: [status, json, total_pages, data] received
    account_id,            \* main: account_id
    retrieved,             \* get_account_transactions: result of make_api_call
    firefly_transactions,  \* main: firefly_transactions
    csv_transactions,      \* main: csv_transactions
    missing_in_ff,         \* stdout section "Transactions missing in FF"
    missing_in_csv         \* stdout section "Transactions missing in CSV"

vars == <<pc, format_config, csv_file, endpoint, page, all_data,
          requests, responses, account_id, retrieved, firefly_transactions,
          csv_transactions, missing_in_ff, missing_in_csv>>

\* Python's None, kept apart from every text (no text holds this token).
None == <<"None">>
\* a local of main() that has not been assigned yet
Unset == <<"unset">>

----------------------------------------------------------------------------
(* Bounds of the model *)

\* largest total_pages a response reports
MaxPages == 3
\* longest statement / ledger sequence handed to compare_transactions alone
MaxTxns == 2

----------------------------------------------------------------------------
(* Sequences *)

\* all sequences over S of length at most n
SeqsUpTo(S, n) == UNION {[1..k -> S] : k \in 0..n}

RECURSIVE Concat(_)
\* list.extend over a sequence of lists
Concat(ss) == IF ss = <<>> THEN <<>> ELSE Head(ss) \o Concat(Tail(ss))

\* Python's `marker in text` for a one-token marker
Contains(marker, text) == \E i \in 1..Len(text) : text[i] = marker

----------------------------------------------------------------------------
(* compare_transactions *)

RECURSIVE MatchFoundWithName(_, _)
\* mutant: the description takes part in the match
MatchFoundWithName(txn, others) ==
    IF others = <<>> THEN FALSE
    ELSE IF txn.date = Head(others).date /\ txn.amount = Head(others).amount
            /\ txn.name = Head(others).name
         THEN TRUE
         ELSE MatchFoundWithName(txn, Tail(others))

RECURSIVE MatchFound(_, _)
\* the inner loop: scans `others` until date and amount both equal
MatchFound(txn, others) ==
    IF others = <<>> THEN FALSE
    ELSE IF txn.date = Head(others).date /\ txn.amount = Head(others).amount
         THEN TRUE
         ELSE MatchFound(txn, Tail(others))

\* index of the first element of `others` matching txn, 0 if none
FirstMatch(txn, others) ==
    IF \E i \in 1..Len(others) :
           txn.date = others[i].date /\ txn.amount = others[i].amount
    THEN CHOOSE i \in 1..Len(others) :
           /\ txn.date = others[i].date /\ txn.amount = others[i].amount
           /\ \A j \in 1..(i-1) :
                ~(txn.date = others[j].date /\ txn.amount = others[j].amount)
    ELSE 0

\* s without its i-th element
Without(s, i) == SubSeq(s, 1, i-1) \o SubSeq(s, i+1, Len(s))

RECURSIVE UnmatchedConsuming(_, _)
\* mutant: a matched element of `others` is consumed and cannot match again
UnmatchedConsuming(txns, others) ==
    IF txns = <<>> THEN <<>>
    ELSE LET i == FirstMatch(Head(txns), others) IN
         IF i = 0
         THEN <<Head(txns)>> \o UnmatchedConsuming(Tail(txns), others)
         ELSE UnmatchedConsuming(Tail(txns), Without(others, i))

RECURSIVE Unmatched(_, _)
\* the outer loop: the printed entries, in order
Unmatched(txns, others) ==
    IF txns = <<>> THEN <<>>
    ELSE (IF MatchFound(Head(txns), others) THEN <<>> ELSE <<Head(txns)>>)
         \o Unmatched(Tail(txns), others)

----------------------------------------------------------------------------
(* datetime.strptime / strftime over tokenised text *)

Directives == {"%Y", "%m", "%d", "%H", "%M", "%S"}

\* the tokens a directive accepts
Accepts(directive) ==
    CASE directive = "%Y" -> {"2024"}
      [] directive = "%m" -> {"09"}
      [] directive = "%d" -> {"01", "05"}
      [] directive = "%H" -> {"10"}
      [] directive = "%M" -> {"30"}
      [] directive = "%S" -> {"00"}

\* strptime succeeds: every directive reads a token it accepts and every
\* literal of the format is found in place
StrptimeOk(text, fmt) ==
    /\ Len(text) = Len(fmt)
    /\ \A i \in 1..Len(fmt) :
         IF fmt[i] \in Directives THEN text[i] \in Accepts(fmt[i])
         ELSE text[i] = fmt[i]

\* the token strptime read for a directive
Field(text, fmt, directive) ==
    text[CHOOSE i \in 1..Len(fmt) : fmt[i] = directive]

\* strptime(text, fmt).strftime('%Y/%m/%d')
FormatDate(text, fmt) ==
    <<Field(text, fmt, "%Y"), "/", Field(text, fmt, "%m"), "/",
      Field(text, fmt, "%d")>>

\* the format get_transaction_list parses leg dates with
LedgerDateFormat ==
    <<"%Y", "-", "%m", "-", "%d", "T", "%H", ":", "%M", ":", "%S", "+00:00">>

----------------------------------------------------------------------------
(* int(amount.split('.')[0]) and str(total) *)

Digits == <<"0", "1", "2", "3", "4", "5", "6", "7", "8", "9">>

DigitValue(c) == (CHOOSE i \in 1..Len(Digits) : Digits[i] = c) - 1

RECURSIVE SplitDotFirst(_)
\* amount.split('.')[0]: the characters before the first '.'
SplitDotFirst(amount) ==
    IF amount = <<>> \/ Head(amount) = "." THEN <<>>
    ELSE <<Head(amount)>> \o SplitDotFirst(Tail(amount))

RECURSIVE DigitsToNat(_)
DigitsToNat(ds) ==
    IF ds = <<>> THEN 0
    ELSE DigitsToNat(SubSeq(ds, 1, Len(ds) - 1)) * Len(Digits)
         + DigitValue(ds[Len(ds)])

\* int(text) for a signed run of digits
ParseInt(text) ==
    IF text # <<>> /\ Head(text) = "-" THEN 0 - DigitsToNat(Tail(text))
    ELSE DigitsToNat(text)

RECURSIVE NatToDigits(_)
NatToDigits(n) ==
    IF n < Len(Digits) THEN <<Digits[n + 1]>>
    ELSE NatToDigits(n \div Len(Digits)) \o <<Digits[(n % Len(Digits)) + 1]>>

\* str(n)
IntToStr(n) == IF n < 0 THEN <<"-">> \o NatToDigits(0 - n) ELSE NatToDigits(n)

----------------------------------------------------------------------------
(* The ledger's resources, as the HTTP API serves them *)

\* an account resource: account['id'], account['attributes']['name']
Account(id, name) == [id |-> id, attributes |-> [name |-> name]]

\* one leg of a transaction group
Leg(source_id, amount, day, description) ==
    [source_id |-> source_id, amount |-> amount, description |-> description,
     date |-> <<"2024", "-", "09", "-", day, "T", "10", ":", "30", ":", "00",
                "+00:00">>]

\* a transaction group: transaction['attributes'] of the API
Group(group_title, legs) == [group_title |-> group_title, transactions |-> legs]

CardName == <<"C", "a", "r", "d">>

AccountPages ==
    { <<Account(<<"1">>, CardName)>>,
      <<Account(<<"2">>, <<"c", "a", "r", "d">>)>>,
      <<Account(<<"2">>, <<"B", "a", "n", "k">>), Account(<<"3">>, CardName)>> }

CoffeeGroup ==
    Group(None, <<Leg(<<"1">>, <<"1", ".", "5">>, "01", <<"Coffee", "Shop">>)>>)
LunchGroup ==
    Group(<<>>, <<Leg(<<"1">>, <<"2", ".", "0">>, "01", <<"Lunch">>),
                  Leg(<<"3">>, <<"1", ".", "9">>, "05", <<"Tip">>)>>)
GroceriesGroup ==
    Group(<<"Groceries">>,
          <<Leg(<<"3">>, <<"1", ".", "5">>, "05", <<"Food">>),
            Leg(<<"1">>, <<"1", ".", "9">>, "01", <<"Soap">>)>>)
TripGroup ==
    Group(<<"Trip">>,
          <<Leg(<<"1">>, <<"9", ".", "9">>, "05", <<"Train">>),
            Leg(<<"1">>, <<"1", ".", "5">>, "05", <<"Bus">>)>>)

TransactionPages ==
    { <<CoffeeGroup>>, <<LunchGroup, GroceriesGroup, TripGroup>> }

PageChoices(ep) == IF ep = "accounts" THEN AccountPages ELSE TransactionPages

\* final status codes requests.get can hand back
Statuses == {200, 300, 404, 500}

\* a body response.json() or the subscripts of lines 126-128 raise on
NotAPage == [json |-> FALSE, total_pages |-> 0, data |-> <<>>]

\* a body holding data and meta.pagination.total_pages
PageBodies(ep) ==
    {[json |-> TRUE, total_pages |-> t, data |-> d] :
        t \in 0..MaxPages, d \in PageChoices(ep)}

\* mutant: the status is never looked at
RaiseForStatusNever(status) == FALSE

\* Response.raise_for_status raises for 4xx and 5xx
RaiseForStatus(status) == 400 <= status /\ status < 600

\* the responses a request for `ep` can receive; the body of a response
\* whose status raises is never read, two of them stand for all
Responses(ep) ==
    {[status |-> s, json |-> b.json, total_pages |-> b.total_pages,
      data |-> b.data] :
        s \in {200, 300}, b \in PageBodies(ep) \cup {NotAPage}}
    \cup
    {[status |-> s, json |-> b.json, total_pages |-> b.total_pages,
      data |-> b.data] :
        s \in {404, 500},
        b \in {NotAPage, [json |-> TRUE, total_pages |-> 1, data |-> <<>>]}}

----------------------------------------------------------------------------
(* FireflyAPIClient *)

\* mutant: the loop stops one page early
LoopEndsEarly(nextPage, resps) == nextPage >= resps[Len(resps)].total_pages

\* mutant: the total of the first response decides
LoopEndsByFirst(nextPage, resps) == nextPage > resps[1].total_pages

\* line 128: page > data['meta']['pagination']['total_pages'], read from
\* the response just received
LoopEnds(nextPage, resps) == nextPage > resps[Len(resps)].total_pages

\* Python truthiness of an optional text
Truthy(x) == x # None /\ x # <<>>

RECURSIVE GetAccountIdScanLast(_, _)
\* mutant: the last account of that name wins
GetAccountIdScanLast(accounts, name) ==
    IF accounts = <<>> THEN None
    ELSE LET rest == GetAccountIdScanLast(Tail(accounts), name) IN
         IF rest # None THEN rest
         ELSE IF Head(accounts).attributes.name = name THEN Head(accounts).id
              ELSE None

RECURSIVE GetAccountIdScan(_, _)
\* lines 147-151
GetAccountIdScan(accounts, name) ==
    IF accounts = <<>> THEN None
    ELSE IF Head(accounts).attributes.name = name THEN Head(accounts).id
         ELSE GetAccountIdScan(Tail(accounts), name)

\* mutant: any leg of the group may carry the account
FilterByAnyLeg(transactions, id) ==
    IF Truthy(id)
    THEN SelectSeq(transactions,
                   LAMBDA t : \E i \in 1..Len(t.transactions) :
                                  t.transactions[i].source_id = id)
    ELSE transactions

\* lines 137-143
FilterByAccount(transactions, id) ==
    IF Truthy(id)
    THEN SelectSeq(transactions, LAMBDA t : t.transactions[1].source_id = id)
    ELSE transactions

RECURSIVE TotalCost(_)
\* lines 161-164
TotalCost(legs) ==
    IF legs = <<>> THEN 0
    ELSE ParseInt(SplitDotFirst(Head(legs).amount)) + TotalCost(Tail(legs))

\* mutant: the legs are summed whatever the group title
CanonicalAlwaysSum(transaction) ==
    LET first == transaction.transactions[1]
        split == Truthy(transaction.group_title)
    IN  [date   |-> FormatDate(first.date, LedgerDateFormat),
         name   |-> IF split THEN transaction.group_title
                    ELSE first.description,
         amount |-> IntToStr(TotalCost(transaction.transactions))]

\* lines 160-179: the canonical transaction of one group
Canonical(transaction) ==
    LET first == transaction.transactions[1]
        split == Truthy(transaction.group_title)
    IN  [date   |-> FormatDate(first.date, LedgerDateFormat),
         name   |-> IF split THEN transaction.group_title
                    ELSE first.description,
         amount |-> IF split THEN IntToStr(TotalCost(transaction.transactions))
                    ELSE SplitDotFirst(first.amount)]

----------------------------------------------------------------------------
(* read_csv *)

\* '現地利用額' (line 51) and 'リボ' (line 53), each one token of a field
ConversionMarker == "genchi-riyougaku"
RiboMarker == "ribo"

\* row[i] of Python, columns counted from 0
Col(row, i) == row[i + 1]

\* lines 50-54: the row is skipped
Excluded(row, config) ==
    /\ config.has_ribo = "True"
    /\ \/ Contains(ConversionMarker, Col(row, 1))
       \/ Contains(RiboMarker, Col(row, 1))
       \/ Contains(RiboMarker, Col(row, 3))

\* the rows the for loop of line 48 sees
RowsRead(file, config) ==
    IF config.has_header = "True" /\ file # <<>> THEN Tail(file) ELSE file

\* the rows that reach line 56
RowsKept(file, config) ==
    SelectSeq(RowsRead(file, config), LAMBDA row : ~Excluded(row, config))

\* read_csv raises: next(reader) on an empty file (line 47) or strptime on
\* a date field that does not follow date_format (line 56)
ReadCsvRaises(file, config) ==
    \/ config.has_header = "True" /\ file = <<>>
    \/ \E i \in 1..Len(RowsKept(file, config)) :
          ~StrptimeOk(Col(RowsKept(file, config)[i], config.date_column),
                      config.date_format)

\* lines 56-65: the transactions read_csv returns
ReadCsvResult(file, config) ==
    LET kept == RowsKept(file, config) IN
    [i \in 1..Len(kept) |->
        [date   |-> FormatDate(Col(kept[i], config.date_column),
                               config.date_format),
         name   |-> Col(kept[i], config.description_column),
         amount |-> Col(kept[i], config.amount_column)]]

\* the statement files and format configurations of the model
CsvRow(day, shop, memo, kind, amount) ==
    << <<day, ".", "09", ".", "2024">>, shop, memo, kind, amount >>

HeaderRow == << <<"Date">>, <<"Shop">>, <<"Memo">>, <<"Kind">>, <<"Amount">> >>
CoffeeRow ==
    CsvRow("01", <<"Coffee">>, <<"memo">>, <<"once">>, <<"1", ".", "5">>)
MarketRow ==
    CsvRow("05", <<"Market">>, <<ConversionMarker, "USD">>, <<"once">>, <<"2">>)
HotelRow ==
    CsvRow("05", <<"Hotel", ConversionMarker>>, <<"memo">>, <<"once">>, <<"2">>)
ShoesRow ==
    CsvRow("01", <<"Shoes">>, <<"memo">>, <<RiboMarker>>, <<"1">>)
FeeRow ==
    CsvRow("01", <<RiboMarker, "fee">>, <<"memo">>, <<"once">>, <<"1", "0">>)

CsvFiles ==
    { <<>>,
      <<HeaderRow, CoffeeRow>>,
      <<CoffeeRow, MarketRow>>,
      <<HeaderRow, HotelRow, ShoesRow>>,
      <<FeeRow, CoffeeRow, CoffeeRow>> }

FormatConfigs ==
    {[has_header |-> h, has_ribo |-> r, date_column |-> 0,
      description_column |-> d, amount_column |-> 4,
      date_format |-> <<"%d", ".", "%m", ".", "%Y">>,
      ff_account_id_name |-> CardName] :
        h \in {"True", "False"}, r \in {"True", "False"}, d \in {1, 2}}

----------------------------------------------------------------------------
(* main *)

Init ==
    /\ pc = "call_accounts"
    /\ format_config \in FormatConfigs
    /\ csv_file = Unset
    /\ endpoint = "accounts"
    /\ page = 1
    /\ all_data = <<>>
    /\ requests = <<>>
    /\ responses = <<>>
    /\ account_id = Unset
    /\ retrieved = Unset
    /\ firefly_transactions = Unset
    /\ csv_transactions = Unset
    /\ missing_in_ff = Unset
    /\ missing_in_csv = Unset

\* lines 110-115: make_api_call is entered, for accounts (line 146) or for
\* transactions (line 134)
EnterMakeApiCall ==
    /\ pc \in {"call_accounts", "call_transactions"}
    /\ endpoint' = IF pc = "call_accounts" THEN "accounts" ELSE "transactions"
    /\ page' = 1
    /\ all_data' = <<>>
    /\ requests' = <<>>
    /\ responses' = <<>>
    /\ pc' = IF pc = "call_accounts" THEN "in_accounts" ELSE "in_transactions"
    /\ UNCHANGED <<format_config, csv_file, account_id, retrieved,
                   firefly_transactions, csv_transactions, missing_in_ff,
                   missing_in_csv>>

\* lines 116-130: one turn of the while loop
MakeApiCall ==
    /\ pc \in {"in_accounts", "in_transactions"}
    /\ \E resp \in Responses(endpoint) :
         /\ requests' = Append(requests, page)
         /\ responses' = Append(responses, resp)
         /\ IF RaiseForStatus(resp.status) \/ ~resp.json
            THEN /\ pc' = "failed"
                 /\ UNCHANGED <<page, all_data>>
            ELSE /\ all_data' = all_data \o resp.data
                 /\ page' = page + 1
                 /\ pc' = IF LoopEnds(page + 1, Append(responses, resp))
                          THEN (IF pc = "in_accounts" THEN "accounts_returned"
                                ELSE "transactions_returned")
                          ELSE pc
    /\ UNCHANGED <<format_config, csv_file, endpoint, account_id, retrieved,
                   firefly_transactions, csv_transactions, missing_in_ff,
                   missing_in_csv>>

\* lines 147-151 and 198
GetAccountId ==
    /\ pc = "accounts_returned"
    /\ account_id' = GetAccountIdScan(all_data, format_config.ff_account_id_name)
    /\ pc' = "call_transactions"
    /\ UNCHANGED <<format_config, csv_file, endpoint, page, all_data, requests,
                   responses, retrieved, firefly_transactions,
                   csv_transactions, missing_in_ff, missing_in_csv>>

\* lines 137-143, 157-180 and 199
GetTransactionList ==
    /\ pc = "transactions_returned"
    /\ retrieved' = FilterByAccount(all_data, account_id)
    /\ firefly_transactions' =
          [i \in 1..Len(retrieved') |-> Canonical(retrieved'[i])]
    /\ requests' = <<>>
    /\ responses' = <<>>
    /\ pc' = "read_csv"
    /\ UNCHANGED <<format_config, csv_file, endpoint, page, all_data,
                   account_id, csv_transactions, missing_in_ff, missing_in_csv>>

\* lines 42-65 and 204; the file holds what it holds when line 43 opens it
ReadCsv ==
    /\ pc = "read_csv"
    /\ \E file \in CsvFiles :
         /\ csv_file' = file
         /\ IF ReadCsvRaises(file, format_config)
            THEN pc' = "failed" /\ UNCHANGED csv_transactions
            ELSE /\ csv_transactions' = ReadCsvResult(file, format_config)
                 /\ pc' = "compare_transactions"
    /\ UNCHANGED <<format_config, endpoint, page, all_data, requests,
                   responses, account_id, retrieved, firefly_transactions,
                   missing_in_ff, missing_in_csv>>

\* lines 75-101 and 207
CompareTransactions ==
    /\ pc = "compare_transactions"
    /\ missing_in_ff' = Unmatched(csv_transactions, firefly_transactions)
    /\ missing_in_csv' = Unmatched(firefly_transactions, csv_transactions)
    /\ pc' = "done"
    /\ UNCHANGED <<format_config, csv_file, endpoint, page, all_data, requests,
                   responses, account_id, retrieved, firefly_transactions,
                   csv_transactions>>

Next ==
    \/ EnterMakeApiCall
    \/ MakeApiCall
    \/ GetAccountId
    \/ GetTransactionList
    \/ ReadCsv
    \/ CompareTransactions

Spec == Init /\ [][Next]_vars

----------------------------------------------------------------------------
(* compare_transactions on its own, over all short canonical sequences *)

CanonicalDates ==
    { <<"2024", "/", "09", "/", "01">>, <<"2024", "/", "09", "/", "05">> }
CanonicalAmounts == { <<"1", "0", "0">>, <<"5", "0", "0">> }
CanonicalNames == { <<"Coffee">>, <<"Coffee", "Shop">> }

CanonicalTransactions ==
    [date : CanonicalDates, name : CanonicalNames, amount : CanonicalAmounts]

InitCompare ==
    /\ pc = "compare_transactions"
    /\ csv_transactions \in SeqsUpTo(CanonicalTransactions, MaxTxns)
    /\ firefly_transactions \in SeqsUpTo(CanonicalTransactions, MaxTxns)
    /\ format_config = CHOOSE c \in FormatConfigs : TRUE
    /\ csv_file = <<>>
    /\ endpoint = "transactions"
    /\ page = 1
    /\ all_data = <<>>
    /\ requests = <<>>
    /\ responses = <<>>
    /\ account_id = None
    /\ retrieved = <<>>
    /\ missing_in_ff = Unset
    /\ missing_in_csv = Unset

NextCompare == CompareTransactions

SpecCompare == InitCompare /\ [][NextCompare]_vars

----------------------------------------------------------------------------
(* Vocabulary of the properties *)

\* i-th element of txns has a counterpart in others: equal date, equal amount
HasCounterpart(txn, others) ==
    \E j \in 1..Len(others) :
        others[j].date = txn.date /\ others[j].amount = txn.amount

\* the date and amount of every entry, in order
DateAmounts(txns) ==
    [i \in 1..Len(txns) |-> <<txns[i].date, txns[i].amount>>]

\* txns with every description replaced by name
Renamed(txns, name) ==
    [i \in 1..Len(txns) |-> [txns[i] EXCEPT !.name = name]]

\* how many entries of txns carry the date and amount of txn
CountLike(txn, txns) ==
    Cardinality({j \in 1..Len(txns) :
                    txns[j].date = txn.date /\ txns[j].amount = txn.amount})

\* the k-th smallest element of a set of numbers
KthSmallest(S, k) == CHOOSE i \in S : Cardinality({j \in S : j < i}) = k - 1

\* the integer an amount text denotes once its fractional part is cut off
WholePart(amount) ==
    LET dots == {i \in 1..Len(amount) : amount[i] = "."}
        cut  == IF dots = {} THEN Len(amount) + 1 ELSE KthSmallest(dots, 1)
    IN  ParseInt(SubSeq(amount, 1, cut - 1))

RECURSIVE SumWholeParts(_)
SumWholeParts(legs) ==
    IF legs = <<>> THEN 0
    ELSE WholePart(Head(legs).amount) + SumWholeParts(Tail(legs))

\* a make_api_call is running or has just returned, no response raised
CallAlive ==
    pc \in {"in_accounts", "in_transactions", "accounts_returned",
            "transactions_returned"}
CallReturned == pc \in {"accounts_returned", "transactions_returned"}

\* every response of the call reports the same total_pages = n
AllReport(n) == \A i \in 1..Len(responses) : responses[i].total_pages = n

\* the data of the call's responses, page after page
PagesServed == Concat([i \in 1..Len(responses) |-> responses[i].data])

Is2xx(status) == 200 <= status /\ status < 300

\* the call failed at its i-th response: nothing was requested after it,
\* nothing reached the caller, and nothing was compared
FailedAt(i) ==
    /\ i = Len(responses)
    /\ pc = "failed"
    /\ requests = [k \in 1..i |-> k]
    /\ IF endpoint = "accounts" THEN account_id = Unset
       ELSE retrieved = Unset /\ firefly_transactions = Unset
    /\ csv_transactions = Unset
    /\ missing_in_ff = Unset
    /\ missing_in_csv = Unset

----------------------------------------------------------------------------
(* C1 *)

\* C1: compare_transactions reports a statement transaction as missing in
\* the ledger iff no ledger transaction has its date and its amount, and a
\* ledger transaction as missing in the statement iff no statement
\* transaction has its date and its amount, each report in input order;
\* replacing every description leaves the reported dates and amounts as
\* they are; an empty statement and one ledger record report that record in
\* the second list alone.
C1_ReportsUnmatchedByDateAndAmount ==
    pc = "done" =>
      /\ missing_in_ff =
           SelectSeq(csv_transactions,
                     LAMBDA t : ~HasCounterpart(t, firefly_transactions))
      /\ missing_in_csv =
           SelectSeq(firefly_transactions,
                     LAMBDA t : ~HasCounterpart(t, csv_transactions))
      /\ \A n \in CanonicalNames :
           /\ DateAmounts(Unmatched(Renamed(csv_transactions, n),
                                    firefly_transactions))
                = DateAmounts(missing_in_ff)
           /\ DateAmounts(Unmatched(csv_transactions,
                                    Renamed(firefly_transactions, n)))
                = DateAmounts(missing_in_ff)
           /\ DateAmounts(Unmatched(Renamed(firefly_transactions, n),
                                    csv_transactions))
                = DateAmounts(missing_in_csv)
           /\ DateAmounts(Unmatched(firefly_transactions,
                                    Renamed(csv_transactions, n)))
                = DateAmounts(missing_in_csv)
      /\ (csv_transactions = <<>> /\ Len(firefly_transactions) = 1
            => missing_in_ff = <<>> /\ missing_in_csv = firefly_transactions)

\* a statement row and a ledger row that differ in description only were
\* compared, and neither is reported
C1_Witness ==
    /\ pc = "done"
    /\ Len(csv_transactions) = 1
    /\ Len(firefly_transactions) = 1
    /\ csv_transactions[1].date = firefly_transactions[1].date
    /\ csv_transactions[1].amount = firefly_transactions[1].amount
    /\ csv_transactions[1].name # firefly_transactions[1].name
    /\ missing_in_ff = <<>>
    /\ missing_in_csv = <<>>

----------------------------------------------------------------------------
(* C2 *)

\* two statement rows and one ledger row, all of one date and amount
TwoStatementRowsOneLedgerRow ==
    /\ Len(csv_transactions) = 2
    /\ Len(firefly_transactions) = 1
    /\ \A i \in 1..2 :
         /\ csv_transactions[i].date = firefly_transactions[1].date
         /\ csv_transactions[i].amount = firefly_transactions[1].amount

\* C2 as claimed: the ledger row is consumed by the first statement row, so
\* the second statement row is the one entry of the missing-in-ledger
\* report, and the missing-in-statement report is empty.
C2_LedgerRowConsumed ==
    pc = "done" /\ TwoStatementRowsOneLedgerRow =>
      /\ missing_in_ff = <<csv_transactions[2]>>
      /\ missing_in_csv = <<>>

\* C2 as amended: a ledger transaction is not consumed by a match; statement
\* transactions of one date and amount are reported all or none, and for two
\* statement rows and one ledger row of one date and amount both reports
\* are empty.
C2_LedgerRowMatchesEveryStatementRow ==
    pc = "done" =>
      /\ \A i \in 1..Len(csv_transactions) :
           CountLike(csv_transactions[i], missing_in_ff)
             \in {0, CountLike(csv_transactions[i], csv_transactions)}
      /\ (TwoStatementRowsOneLedgerRow
            => missing_in_ff = <<>> /\ missing_in_csv = <<>>)

C2_Witness ==
    /\ pc = "done"
    /\ TwoStatementRowsOneLedgerRow
    /\ missing_in_ff = <<>>

----------------------------------------------------------------------------
(* C3 *)

\* C3: while every response of a call reports the same total_pages = N,
\* N >= 1, and none raises, the call requests pages 1, 2, ... in order and
\* not beyond N, returns exactly when page N has been received, and returns
\* the concatenation of the pages' data (N x k items when every page holds
\* k items); this holds for the call for accounts and for the later call
\* for transactions on the same client.
C3_RequestsPagesOneToN ==
    CallAlive /\ responses # <<>> =>
      LET n == responses[1].total_pages IN
      n >= 1 /\ AllReport(n) =>
        /\ requests = [i \in 1..Len(requests) |-> i]
        /\ Len(requests) = Len(responses)
        /\ Len(requests) <= n
        /\ CallReturned <=> Len(requests) = n
        /\ all_data = PagesServed
        /\ CallReturned =>
             LET k == Len(responses[1].data) IN
             (\A i \in 1..n : Len(responses[i].data) = k)
               => Len(all_data) = n * k

\* the second call on the client returned after three pages of three items
C3_Witness ==
    /\ pc = "transactions_returned"
    /\ AllReport(3)
    /\ requests = <<1, 2, 3>>
    /\ \A i \in 1..3 : Len(responses[i].data) = 3
    /\ Len(all_data) = 9

----------------------------------------------------------------------------
(* C4 *)

\* C4 as claimed: a response with a non-2xx status is the last of its call:
\* the call fails there, its page is not requested again, no later page is
\* requested, nothing is returned to the caller, and compare_transactions
\* is not invoked.
C4_Non2xxStatusFailsTheCall ==
    \A i \in 1..Len(responses) :
        ~Is2xx(responses[i].status) => FailedAt(i)

\* C4 as amended: a response with a 4xx or 5xx status is the last of its
\* call: the call fails there, its page is not requested again, no later
\* page is requested, nothing is returned to the caller (the items of the
\* pages fetched before it included), and compare_transactions is not
\* invoked.
C4_ErrorStatusFailsTheCall ==
    \A i \in 1..Len(responses) :
        (400 <= responses[i].status /\ responses[i].status < 600)
          => FailedAt(i)

\* the second page of transactions came back 500 after a page of items
C4_Witness ==
    /\ pc = "failed"
    /\ endpoint = "transactions"
    /\ Len(responses) = 2
    /\ responses[2].status = 500
    /\ all_data # <<>>
    /\ retrieved = Unset

----------------------------------------------------------------------------
(* C5 *)

\* C5: every transaction handed to compare_transactions, from the statement
\* or from the ledger, has an amount without fractional part, the source
\* amount truncated; so a statement row and a ledger transaction of one date
\* whose amounts have the same integer part are compared as equal: the
\* statement row is not reported missing.
C5_AmountsAreTruncated ==
    pc \in {"compare_transactions", "done"} =>
      /\ \A i \in 1..Len(firefly_transactions) :
           ~Contains(".", firefly_transactions[i].amount)
      /\ \A i \in 1..Len(csv_transactions) :
           ~Contains(".", csv_transactions[i].amount)
      /\ pc = "done" =>
           \A i \in 1..Len(csv_transactions) :
             (\E j \in 1..Len(firefly_transactions) :
                 /\ firefly_transactions[j].date = csv_transactions[i].date
                 /\ WholePart(firefly_transactions[j].amount)
                      = WholePart(csv_transactions[i].amount))
               => \A k \in 1..Len(missing_in_ff) :
                     missing_in_ff[k] # csv_transactions[i]

----------------------------------------------------------------------------
(* C6 *)

\* C6: get_transaction_list emits one canonical transaction per retrieved
\* group, in order: with a non-empty group title the amount is the sum of
\* the legs' amounts, each truncated, and the description is the title;
\* with an empty or absent title the amount is the first leg's amount
\* truncated and the description the first leg's; the date is the day of
\* the first leg in both cases.
C6_OneCanonicalTransactionPerGroup ==
    pc \in {"read_csv", "compare_transactions", "done"} =>
      /\ Len(firefly_transactions) = Len(retrieved)
      /\ \A i \in 1..Len(retrieved) :
           LET group == retrieved[i]
               legs  == group.transactions
               txn   == firefly_transactions[i]
           IN  /\ txn.date = <<legs[1].date[1], "/", legs[1].date[3], "/",
                               legs[1].date[5]>>
               /\ IF group.group_title # None /\ group.group_title # <<>>
                  THEN /\ ParseInt(txn.amount) = SumWholeParts(legs)
                       /\ txn.name = group.group_title
                  ELSE /\ ParseInt(txn.amount) = WholePart(legs[1].amount)
                       /\ txn.name = legs[1].description
               /\ ~Contains(".", txn.amount)

\* a page with an untitled two-leg group (2.0 and 1.9, emitted as 2) and a
\* titled one (9.9 and 1.5, emitted as 10) went through
C6_Witness ==
    /\ pc = "read_csv"
    /\ retrieved = <<CoffeeGroup, LunchGroup, GroceriesGroup, TripGroup>>
    /\ firefly_transactions[2].amount = <<"2">>
    /\ firefly_transactions[2].name = <<"Lunch">>
    /\ firefly_transactions[3].amount = <<"2">>
    /\ firefly_transactions[4].amount = <<"1", "0">>
    /\ firefly_transactions[4].name = <<"Trip">>

----------------------------------------------------------------------------
(* C7 *)

\* the exclusion rule as claimed: the description field is the column
\* description_column names, the amount-adjacent field is column 3
ExcludedAsClaimed(row, config) ==
    /\ config.has_ribo = "True"
    /\ \/ Contains(ConversionMarker, Col(row, config.description_column))
       \/ Contains(RiboMarker, Col(row, config.description_column))
       \/ Contains(RiboMarker, Col(row, 3))

\* C7: read_csv emits, in input order, one transaction for every row that is
\* neither the skipped header row nor excluded, a row being excluded iff
\* has_ribo is set and its description field holds the conversion marker or
\* its description field or amount-adjacent field holds the revolving-credit
\* marker; the output count is the row count minus header minus excluded.
C7_ReadCsvEmitsEveryRowNotExcluded ==
    pc \in {"compare_transactions", "done"} =>
      LET header == IF format_config.has_header = "True" THEN 1 ELSE 0
          rows   == SubSeq(csv_file, header + 1, Len(csv_file))
          kept   == SelectSeq(rows,
                        LAMBDA row : ~ExcludedAsClaimed(row, format_config))
      IN  /\ Len(csv_transactions)
               = Len(csv_file) - header - (Len(rows) - Len(kept))
          /\ \A i \in 1..Len(kept) :
               i <= Len(csv_transactions)
               /\ csv_transactions[i].name
                    = Col(kept[i], format_config.description_column)
               /\ csv_transactions[i].amount
                    = Col(kept[i], format_config.amount_column)

----------------------------------------------------------------------------
(* C8 *)

\* C8: get_account_id returns the id of the first account, in the order the
\* pages served them, whose name equals the requested name exactly, and
\* None iff no account of any page has that name.
C8_FirstAccountOfThatName ==
    pc = "call_transactions" =>
      LET accounts == PagesServed
          named == {i \in 1..Len(accounts) :
                      accounts[i].attributes.name
                        = format_config.ff_account_id_name}
      IN  /\ named = {} <=> account_id = None
          /\ named # {} => account_id = accounts[KthSmallest(named, 1)].id

\* the name is on the first page and again, after another account, on the
\* second; the first one is returned
C8_Witness ==
    /\ pc = "call_transactions"
    /\ Len(responses) = 2
    /\ responses[1].data = <<Account(<<"1">>, CardName)>>
    /\ Len(responses[2].data) = 2
    /\ account_id = <<"1">>

----------------------------------------------------------------------------
(* C9 *)

\* C9: with an account id, get_account_transactions returns, in order, the
\* retrieved groups whose first leg has that source id, other legs not
\* looked at; without one (account resolution found nothing) it returns all
\* of them, main goes on, and the statement is compared with the ledger
\* transactions of all accounts.
C9_FilterByFirstLegOrKeepAll ==
    pc \in {"read_csv", "compare_transactions", "done"} =>
      LET kept == IF account_id = None THEN 1..Len(all_data)
                  ELSE {i \in 1..Len(all_data) :
                          all_data[i].transactions[1].source_id = account_id}
      IN  /\ Len(retrieved) = Cardinality(kept)
          /\ \A k \in 1..Len(retrieved) :
               retrieved[k] = all_data[KthSmallest(kept, k)]
          /\ account_id = None => retrieved = all_data
          /\ account_id = None /\ pc = "done" =>
               /\ Len(firefly_transactions) = Len(all_data)
               /\ missing_in_csv =
                    SelectSeq(firefly_transactions,
                              LAMBDA t : ~HasCounterpart(t, csv_transactions))

\* the account was not found and the run ended with a comparison against
\* groups of two source accounts
C9_Witness ==
    /\ pc = "done"
    /\ account_id = None
    /\ Len(all_data) = 3
    /\ all_data[1].transactions[1].source_id # all_data[2].transactions[1].source_id
    /\ Len(firefly_transactions) = 3

----------------------------------------------------------------------------
(* C10 *)

\* the largest total_pages among the responses of the call
LargestTotal ==
    CHOOSE b \in 0..MaxPages :
        /\ \A i \in 1..Len(responses) : responses[i].total_pages <= b
        /\ \E i \in 1..Len(responses) : responses[i].total_pages = b

\* C10: a call that returns has issued at least one request; after each
\* response the loop goes on iff the next page number does not exceed the
\* total_pages of that response; so with every total at most B the call
\* issues at most max(1, B) requests, and a response whose total is 0 or
\* below the number of pages fetched so far is the last one.
C10_StopsByLatestTotal ==
    CallAlive /\ responses # <<>> =>
      LET latest == responses[Len(responses)].total_pages
          most   == IF LargestTotal < 1 THEN 1 ELSE LargestTotal
      IN  /\ Len(requests) >= 1
          /\ page = Len(responses) + 1
          /\ CallReturned <=> page > latest
          /\ Len(requests) <= most
          /\ \A i \in 1..Len(responses) :
               responses[i].total_pages < i
                 => i = Len(responses) /\ CallReturned

\* the first response announced three pages, the second only one: the call
\* returned after the second
C10_Witness ==
    /\ pc = "transactions_returned"
    /\ Len(responses) = 2
    /\ responses[1].total_pages = 3
    /\ responses[2].total_pages = 1
    /\ requests = <<1, 2>>

====
